---- MODULE Spec2Model ----
(***************************************************************************)
(* AskDoc backend (server.js): the folder table, the file table, the blobs *)
(* of the uploads directory, and the request handlers that change them.    *)
(*                                                                         *)
(* The store is the SQLite database opened at server.js:44.  The source    *)
(* never issues PRAGMA foreign_keys = ON, and SQLite leaves foreign keys   *)
(* unenforced unless a connection asks for them, so the FOREIGN KEY ...    *)
(* ON DELETE CASCADE clauses of both tables do nothing: an INSERT with a   *)
(* dangling reference is accepted and a DELETE cascades to no other row.   *)
(* CHECK and NOT NULL constraints are always enforced.                     *)
(*                                                                         *)
(* Strings that are only compared are numbers here: folder names are name  *)
(* codes ordered as SQLite's BINARY collation orders the names, blob paths *)
(* are path tokens, the empty string is 0.                                 *)
(***************************************************************************)
EXTENDS Integers, FiniteSets, Sequences, TLC

\* SQL NULL / JavaScript null in an id column or parameter.
NULL == 0
\* parseInt of a string that holds no number.
NaN == -1
\* The empty string as a folder name, and as a file_path.
EmptyName == 0
EmptyPath == 0

\* How many folders may be created, and files uploaded, after the seed.
MaxNewFolders == 1
MaxUploads == 1

VARIABLES
    folders,    \* rows of table folders: [id, name, parent_id, tab_type]
    files,      \* rows of table files: [id, file_path, folder_id, tab_type]
    blobs,      \* paths that exist in the uploads directory
    folderSeq,  \* AUTOINCREMENT counter of folders (last id given)
    fileSeq,    \* AUTOINCREMENT counter of files
    uploadSeq,  \* number of blobs multer has written (names the next one)
    unlinking,  \* paths with an fs.unlink of a failed upload still pending
    req,        \* the request whose callback chain is in flight
    last,       \* the response to the latest request (none while it is in flight)
    pre         \* the store when the deleteFolder in flight or last answered arrived

vars == <<folders, files, blobs, folderSeq, fileSeq, uploadSeq, unlinking, req, last, pre>>

----
\* The seed block: the rows a start on an empty folder table inserts.

\* Name codes in BINARY collation order: 1 'XPMS...', 2 'iPS_...', 3 'iPS...',
\* then the four names that start with a Hangul syllable, 4 to 7, by code point.
defaultFolders ==
    << [name |-> 2, parent_id |-> NULL, tab_type |-> "my"],
       [name |-> 7, parent_id |-> NULL, tab_type |-> "my"],
       [name |-> 4, parent_id |-> NULL, tab_type |-> "my"],
       [name |-> 6, parent_id |-> NULL, tab_type |-> "my"],
       [name |-> 5, parent_id |-> NULL, tab_type |-> "my"],
       [name |-> 3, parent_id |-> NULL, tab_type |-> "public"],
       [name |-> 1, parent_id |-> NULL, tab_type |-> "public"] >>

sampleFiles ==
    << [file_path |-> EmptyPath, tab_type |-> "my"],
       [file_path |-> EmptyPath, tab_type |-> "my"],
       [file_path |-> EmptyPath, tab_type |-> "my"] >>

SeedFolderRows ==
    { [id |-> i, name |-> defaultFolders[i].name,
       parent_id |-> defaultFolders[i].parent_id,
       tab_type |-> defaultFolders[i].tab_type] : i \in 1..Len(defaultFolders) }

SeedFileRows ==
    { [id |-> i, file_path |-> sampleFiles[i].file_path,
       folder_id |-> NULL, tab_type |-> sampleFiles[i].tab_type] : i \in 1..Len(sampleFiles) }

----
\* Inputs of the requests.

\* A name a client sends: none/empty, or a name sorting after the seeds.
NameInputs == {EmptyName, 8}
\* tabType in a createFolder body: missing/empty, the two tags, another string.
TabInputs == {"", "my", "public", "bad"}
\* tabType in an upload body.
UploadTabInputs == {"my", "bad"}
NewFolderIds == (Len(defaultFolders) + 1)..(Len(defaultFolders) + MaxNewFolders)
NewFileIds == (Len(sampleFiles) + 1)..(Len(sampleFiles) + MaxUploads)
\* parentId of a createFolder body: absent (null, 'null', '', 0), not a number,
\* the first seed folder, or the id the first created folder has or will have.
ParentInputs == {NULL, NaN, 1, Len(defaultFolders) + 1}
\* folderId of an upload body.
UploadFolderInputs == {NULL, NaN, Len(defaultFolders) + 1}
\* :id of DELETE /api/folders/:id and of DELETE /api/files/:id.
FolderIdInputs == {1} \cup NewFolderIds
FileIdInputs == NewFileIds

----
\* The store's statements.

FolderIds(fs) == { f.id : f \in fs }

\* CHECK(tab_type IN ('my', 'public')) NOT NULL of both tables.
TabTypeCheck(tabType) == tabType \in {"my", "public"}

\* One round of the recursive select: SELECT f.id FROM folders f
\* INNER JOIN folder_tree ft ON f.parent_id = ft.id, for the rows in frontier.
TreeStep(frontier, fs) == { f.id : f \in { g \in fs : g.parent_id \in frontier } }

\* WITH RECURSIVE folder_tree ... UNION ALL: the rows of base, then the rows each
\* round adds, until a round adds none.  UNION ALL drops nothing, so on a cycle
\* the rounds never end: with more rounds than there are rows, some row came
\* back, and the query does not return.
RECURSIVE FolderTreeRounds(_, _, _)
FolderTreeRounds(frontier, fs, fuel) ==
    IF frontier = {} THEN [rows |-> {}, diverges |-> FALSE]
    ELSE IF fuel = 0 THEN [rows |-> frontier, diverges |-> TRUE]
    ELSE LET rest == FolderTreeRounds(TreeStep(frontier, fs), fs, fuel - 1)
         IN  [rows |-> frontier \cup rest.rows, diverges |-> rest.diverges]

FolderTree(base, fs) == FolderTreeRounds(base, fs, Cardinality(fs))

----
\* Requests and responses.

NoRequest == [op |-> "none", pc |-> "idle", id |-> NULL]

Idle == req.pc = "idle"

Snapshot == [folders |-> folders, files |-> files, blobs |-> blobs, unlinking |-> unlinking]

\* Kept only for a deleteFolder; any other request clears it, unless it runs
\* while the deleteFolder is in flight.
NoSnapshot == [folders |-> {}, files |-> {}, blobs |-> {}, unlinking |-> {}]

\* res.status(...).json(...): the response.  id: the id in its body (the row
\* created, the :id deleted); deletedRows: this.changes in its body; dbErr:
\* whether the store itself failed a statement of this request.
NoResponse == [op |-> "none", status |-> 0, id |-> NULL, deletedRows |-> 0, dbErr |-> FALSE]

Respond(op, status, id, deletedRows, dbErr) ==
    last' = [op |-> op, status |-> status, id |-> id, deletedRows |-> deletedRows, dbErr |-> dbErr]

\* parentId / folderId of the body to the value bound to the INSERT: a falsy
\* value, 'null' and '' give null, anything else goes through parseInt.
ProcessedId(x) == IF x = NULL THEN NULL ELSE x

----
\* POST /api/folders

CreateFolderStatus(name, parentId, tabType, dbErr) ==
    IF name = EmptyName \/ tabType = "" THEN 400
    ELSE IF ProcessedId(parentId) = NaN THEN 400
    ELSE IF dbErr \/ ~TabTypeCheck(tabType) THEN 500
    ELSE 200

CreateFolder(name, parentId, tabType, dbErr) ==
    LET status == CreateFolderStatus(name, parentId, tabType, dbErr)
        row == [id |-> folderSeq + 1, name |-> name,
                parent_id |-> ProcessedId(parentId), tab_type |-> tabType]
    IN  /\ folderSeq < Len(defaultFolders) + MaxNewFolders
        /\ pre' = IF Idle THEN NoSnapshot ELSE pre
        /\ IF status = 200
           THEN /\ folders' = folders \cup {row}
                /\ folderSeq' = folderSeq + 1
                /\ Respond("createFolder", 200, row.id, 0, FALSE)
           ELSE /\ UNCHANGED <<folders, folderSeq>>
                /\ Respond("createFolder", status, NULL, 0, status = 500 /\ dbErr)
        /\ UNCHANGED <<files, blobs, fileSeq, uploadSeq, unlinking, req>>

----
\* POST /api/upload

\* multer has written the blob before the handler runs; its name is unique.
Upload(hasFile, folderId, tabType, dbErr) ==
    LET path == uploadSeq + 1
        row == [id |-> fileSeq + 1, file_path |-> path,
                folder_id |-> ProcessedId(folderId), tab_type |-> tabType]
    IN  /\ uploadSeq < MaxUploads
        /\ pre' = IF Idle THEN NoSnapshot ELSE pre
        /\ IF ~hasFile
           THEN /\ Respond("upload", 400, NULL, 0, FALSE)
                /\ UNCHANGED <<files, blobs, fileSeq, uploadSeq, unlinking>>
           ELSE IF ProcessedId(folderId) = NaN
           THEN /\ blobs' = blobs \cup {path}
                /\ uploadSeq' = uploadSeq + 1
                /\ Respond("upload", 400, NULL, 0, FALSE)
                /\ UNCHANGED <<files, fileSeq, unlinking>>
           ELSE IF dbErr \/ ~TabTypeCheck(tabType)
           THEN /\ blobs' = blobs \cup {path}
                /\ uploadSeq' = uploadSeq + 1
                /\ unlinking' = unlinking \cup {path}
                /\ Respond("upload", 500, NULL, 0, dbErr)
                /\ UNCHANGED <<files, fileSeq>>
           ELSE /\ blobs' = blobs \cup {path}
                /\ uploadSeq' = uploadSeq + 1
                /\ files' = files \cup {row}
                /\ fileSeq' = fileSeq + 1
                /\ Respond("upload", 200, row.id, 0, FALSE)
                /\ UNCHANGED unlinking
        /\ UNCHANGED <<folders, folderSeq, req>>

\* fs.unlink(req.file.path, () => {}) of a failed upload finishes; its callback
\* ignores the outcome.
UnlinkDone(path, ok) ==
    /\ path \in unlinking
    /\ unlinking' = unlinking \ {path}
    /\ blobs' = IF ok THEN blobs \ {path} ELSE blobs
    /\ UNCHANGED <<folders, files, folderSeq, fileSeq, uploadSeq, req, last, pre>>

----
\* DELETE /api/folders/:id.  Four statements, each issued from the callback of
\* the one before it; nothing wraps them in a transaction.

\* The base select of getSubItemsQuery and of deleteFilesQuery:
\* SELECT id FROM folders WHERE id = ?
TargetBase(id, fs) == { f.id : f \in { g \in fs : g.id = id } }

\* The base select of deleteSubfoldersQuery, bound to [id, id]:
\* SELECT id FROM folders WHERE id = ? AND id != ?
SubfoldersBase(id, fs) == { f.id : f \in { g \in fs : g.id = id /\ g.id # id } }

\* getSubItemsQuery without the WHERE of its file half: every file row is listed.
SubItems_AllFiles(id, fs, fl) ==
    LET tree == FolderTree(TargetBase(id, fs), fs).rows
    IN  { [type |-> "folder", id |-> f.id, file_path |-> NULL] : f \in { g \in fs : g.id \in tree } }
        \cup
        { [type |-> "file", id |-> f.id, file_path |-> f.file_path] : f \in fl }

\* getSubItemsQuery: the folder rows of folder_tree, and the file rows whose
\* folder_id is IN folder_tree.
SubItems(id, fs, fl) ==
    LET tree == FolderTree(TargetBase(id, fs), fs).rows
    IN  { [type |-> "folder", id |-> f.id, file_path |-> NULL] : f \in { g \in fs : g.id \in tree } }
        \cup
        { [type |-> "file", id |-> f.id, file_path |-> f.file_path] :
            f \in { g \in fl : g.folder_id \in tree } }

\* items.filter(item => item.type === 'file' && item.file_path), as paths.
ItemPaths(items) ==
    { it.file_path : it \in { x \in items : x.type = "file" /\ x.file_path # EmptyPath } }

\* deleteFilesQuery without the recursion: DELETE FROM files WHERE folder_id = ?
DeleteFilesRows_Direct(id, fs, fl) == { f \in fl : f.folder_id = id }

\* deleteFilesQuery with the base select of deleteSubfoldersQuery's intent: the
\* files of the folders below the target, not those of the target itself.
DeleteFilesRows_BelowTarget(id, fs, fl) ==
    { f \in fl : f.folder_id \in FolderTree(TargetBase(id, fs), fs).rows \ {id} }

\* deleteFilesQuery: the file rows DELETE FROM files WHERE folder_id IN (...) removes.
DeleteFilesRows(id, fs, fl) ==
    { f \in fl : f.folder_id \in FolderTree(TargetBase(id, fs), fs).rows }

\* deleteSubfoldersQuery with the base select of the other two: the target's
\* row goes with the rows below it.
DeleteSubfoldersRows_WithTarget(id, fs) ==
    { f \in fs : f.id \in FolderTree(TargetBase(id, fs), fs).rows }

\* deleteSubfoldersQuery: the folder rows DELETE FROM folders WHERE id IN (...) removes.
DeleteSubfoldersRows(id, fs) ==
    { f \in fs : f.id \in FolderTree(SubfoldersBase(id, fs), fs).rows }

\* deleteFolderQuery: the rows DELETE FROM folders WHERE id = ? removes.
DeleteFolderRows(id, fs) == { f \in fs : f.id = id }

\* As DELETE /api/files/:id answers an id it does not find.
DeleteFolderStatus_NotFound(changes) == IF changes = 0 THEN 404 ELSE 200

\* The status of the response once the last statement has succeeded.
DeleteFolderStatus(changes) == 200

\* The blob loop without its try/catch: a removal that throws ends the callback
\* (here: answered as an error) before deleteFilesQuery is issued.
DeleteFolderGetSubItems_UnlinkThrows(id, dbErr) ==
    /\ pre' = Snapshot
    /\ IF dbErr
       THEN /\ Respond("deleteFolder", 500, id, 0, TRUE)
            /\ UNCHANGED <<blobs, req>>
       ELSE IF FolderTree(TargetBase(id, folders), folders).diverges
       THEN /\ req' = [op |-> "deleteFolder", pc |-> "hung", id |-> id]
            /\ last' = NoResponse
            /\ UNCHANGED blobs
       ELSE LET items == SubItems(id, folders, files)
                found == ItemPaths(items) \cap blobs
            IN  \E failed \in SUBSET found :
                   /\ blobs' = blobs \ (found \ failed)
                   /\ IF failed = {}
                      THEN /\ req' = [op |-> "deleteFolder", pc |-> "deleteFiles", id |-> id]
                           /\ last' = NoResponse
                      ELSE /\ Respond("deleteFolder", 500, id, 0, FALSE)
                           /\ UNCHANGED req
    /\ UNCHANGED <<folders, files, folderSeq, fileSeq, uploadSeq, unlinking>>

\* The handler issues getSubItemsQuery; its callback removes the blobs of the
\* files found (existsSync, unlinkSync in try/catch: a removal may fail and is
\* only logged) and issues deleteFilesQuery.
DeleteFolderGetSubItems(id, dbErr) ==
    /\ pre' = Snapshot
    /\ IF dbErr
       THEN /\ Respond("deleteFolder", 500, id, 0, TRUE)
            /\ UNCHANGED <<blobs, req>>
       ELSE IF FolderTree(TargetBase(id, folders), folders).diverges
       THEN /\ req' = [op |-> "deleteFolder", pc |-> "hung", id |-> id]
            /\ last' = NoResponse
            /\ UNCHANGED blobs
       ELSE LET items == SubItems(id, folders, files)
                found == ItemPaths(items) \cap blobs
            IN  /\ \E failed \in SUBSET found : blobs' = blobs \ (found \ failed)
                /\ req' = [op |-> "deleteFolder", pc |-> "deleteFiles", id |-> id]
                /\ last' = NoResponse
    /\ UNCHANGED <<folders, files, folderSeq, fileSeq, uploadSeq, unlinking>>

\* deleteFilesQuery with a callback that logs the error and goes on.
DeleteFolderDeleteFiles_ErrorIgnored(dbErr) ==
    /\ req.op = "deleteFolder" /\ req.pc = "deleteFiles"
    /\ files' = IF dbErr THEN files ELSE files \ DeleteFilesRows(req.id, folders, files)
    /\ req' = [req EXCEPT !.pc = "deleteSubfolders"]
    /\ UNCHANGED <<folders, blobs, folderSeq, fileSeq, uploadSeq, unlinking, pre, last>>

\* deleteFilesQuery runs; its callback issues deleteSubfoldersQuery.
DeleteFolderDeleteFiles(dbErr) ==
    /\ req.op = "deleteFolder" /\ req.pc = "deleteFiles"
    /\ IF dbErr
       THEN /\ Respond("deleteFolder", 500, req.id, 0, TRUE)
            /\ req' = NoRequest
            /\ UNCHANGED files
       ELSE IF FolderTree(TargetBase(req.id, folders), folders).diverges
       THEN /\ req' = [req EXCEPT !.pc = "hung"]
            /\ UNCHANGED <<files, last>>
       ELSE /\ files' = files \ DeleteFilesRows(req.id, folders, files)
            /\ req' = [req EXCEPT !.pc = "deleteSubfolders"]
            /\ UNCHANGED last
    /\ UNCHANGED <<folders, blobs, folderSeq, fileSeq, uploadSeq, unlinking, pre>>

\* deleteSubfoldersQuery runs; its callback issues deleteFolderQuery.
DeleteFolderDeleteSubfolders(dbErr) ==
    /\ req.op = "deleteFolder" /\ req.pc = "deleteSubfolders"
    /\ IF dbErr
       THEN /\ Respond("deleteFolder", 500, req.id, 0, TRUE)
            /\ req' = NoRequest
            /\ UNCHANGED folders
       ELSE /\ folders' = folders \ DeleteSubfoldersRows(req.id, folders)
            /\ req' = [req EXCEPT !.pc = "deleteFolder"]
            /\ UNCHANGED last
    /\ UNCHANGED <<files, blobs, folderSeq, fileSeq, uploadSeq, unlinking, pre>>

\* deleteFolderQuery runs; its callback answers with this.changes.
DeleteFolderDeleteFolder(dbErr) ==
    /\ req.op = "deleteFolder" /\ req.pc = "deleteFolder"
    /\ IF dbErr
       THEN /\ Respond("deleteFolder", 500, req.id, 0, TRUE)
            /\ UNCHANGED folders
       ELSE LET rows == DeleteFolderRows(req.id, folders)
            IN  /\ folders' = folders \ rows
                /\ Respond("deleteFolder", DeleteFolderStatus(Cardinality(rows)), req.id,
                           Cardinality(rows), FALSE)
    /\ req' = NoRequest
    /\ UNCHANGED <<files, blobs, folderSeq, fileSeq, uploadSeq, unlinking, pre>>

----
\* DELETE /api/files/:id.  A select, then from its callback the blob's removal
\* and a delete.

DeleteFileSelect(id, dbErr) ==
    LET rows == { f \in files : f.id = id }
    IN  /\ pre' = NoSnapshot
        /\ IF dbErr
           THEN /\ Respond("deleteFile", 500, id, 0, TRUE)
                /\ UNCHANGED <<blobs, req>>
           ELSE IF rows = {}
           THEN /\ Respond("deleteFile", 404, id, 0, FALSE)
                /\ UNCHANGED <<blobs, req>>
           ELSE LET found == { f.file_path : f \in { g \in rows : g.file_path # EmptyPath } } \cap blobs
                IN  /\ \E failed \in SUBSET found : blobs' = blobs \ (found \ failed)
                    /\ req' = [op |-> "deleteFile", pc |-> "deleteRow", id |-> id]
                    /\ last' = NoResponse
        /\ UNCHANGED <<folders, files, folderSeq, fileSeq, uploadSeq, unlinking>>

DeleteFileDeleteRow(dbErr) ==
    /\ req.op = "deleteFile" /\ req.pc = "deleteRow"
    /\ IF dbErr
       THEN /\ Respond("deleteFile", 500, req.id, 0, TRUE)
            /\ UNCHANGED files
       ELSE LET rows == { f \in files : f.id = req.id }
            IN  /\ files' = files \ rows
                /\ Respond("deleteFile", 200, req.id, Cardinality(rows), FALSE)
    /\ req' = NoRequest
    /\ UNCHANGED <<folders, blobs, folderSeq, fileSeq, uploadSeq, unlinking, pre>>

----
\* The server has started on a fresh database: the seed rows are in, no blob
\* has been written, no request has arrived.
Init ==
    /\ folders = SeedFolderRows
    /\ files = SeedFileRows
    /\ blobs = {}
    /\ folderSeq = Len(defaultFolders)
    /\ fileSeq = Len(sampleFiles)
    /\ uploadSeq = 0
    /\ unlinking = {}
    /\ req = NoRequest
    /\ last = NoResponse
    /\ pre = NoSnapshot

\* One client: a request arrives only once the one before it has been answered.
Next ==
    \/ \E name \in NameInputs, parentId \in ParentInputs, tabType \in TabInputs, dbErr \in BOOLEAN :
          Idle /\ CreateFolder(name, parentId, tabType, dbErr)
    \/ \E hasFile \in BOOLEAN, folderId \in UploadFolderInputs, tabType \in UploadTabInputs, dbErr \in BOOLEAN :
          Idle /\ Upload(hasFile, folderId, tabType, dbErr)
    \/ \E path \in unlinking, ok \in BOOLEAN : UnlinkDone(path, ok)
    \/ \E id \in FolderIdInputs, dbErr \in BOOLEAN : Idle /\ DeleteFolderGetSubItems(id, dbErr)
    \/ \E dbErr \in BOOLEAN : DeleteFolderDeleteFiles(dbErr)
    \/ \E dbErr \in BOOLEAN : DeleteFolderDeleteSubfolders(dbErr)
    \/ \E dbErr \in BOOLEAN : DeleteFolderDeleteFolder(dbErr)
    \/ \E id \in FileIdInputs, dbErr \in BOOLEAN : Idle /\ DeleteFileSelect(id, dbErr)
    \/ \E dbErr \in BOOLEAN : DeleteFileDeleteRow(dbErr)

Spec == Init /\ [][Next]_vars

----
\* GET /api/folders/:tabType

\* How many rows a folder table handed to the listing alone may hold.
MaxTreeRows == 3

\* All the orders a statement may return the rows of S in: before[a, b] says
\* the ORDER BY puts a ahead of b; rows it does not separate come in any order.
RECURSIVE Ordered(_, _)
Ordered(S, before) ==
    IF S = {} THEN { <<>> }
    ELSE UNION { { <<m>> \o t : t \in Ordered(S \ {m}, before) } :
                 m \in { x \in S : \A y \in S : ~before[y, x] } }

\* ORDER BY parent_id ASC, name ASC: NULL sorts first, names in BINARY order.
FolderOrder_ParentOnly(S) == [a \in S, b \in S |-> a.parent_id < b.parent_id]

FolderOrder(S) ==
    [a \in S, b \in S |->
        \/ a.parent_id < b.parent_id
        \/ a.parent_id = b.parent_id /\ a.name < b.name]

ListFoldersSelect_AllTabs(tabType, fs) ==
    { [id |-> f.id, name |-> f.name, parent_id |-> f.parent_id] : f \in fs }

\* SELECT id, name, parent_id, created_at FROM folders WHERE tab_type = ?
\* (created_at is carried along and never read).
ListFoldersSelect(tabType, fs) ==
    { [id |-> f.id, name |-> f.name, parent_id |-> f.parent_id] :
        f \in { g \in fs : g.tab_type = tabType } }

ListFoldersRows(tabType, fs) ==
    LET S == ListFoldersSelect(tabType, fs) IN Ordered(S, FolderOrder(S))

ChildItems_FirstOnly(items, parentId) ==
    LET all == SelectSeq(items, LAMBDA item : item.parent_id = parentId)
    IN  IF all = <<>> THEN <<>> ELSE <<Head(all)>>

\* The filter taking for a root every item that no other item is the parent of:
\* null parent_id, a parent_id that is in no item, or the item's own id.
ChildItems_RootIfNoParentRow(items, parentId) ==
    SelectSeq(items, LAMBDA item :
        \/ item.parent_id = parentId
        \/ /\ parentId = NULL
           /\ \A i \in 1..Len(items) : items[i].id = item.id \/ items[i].id # item.parent_id)

\* items.filter(item => item.parent_id === parentId)
ChildItems(items, parentId) ==
    SelectSeq(items, LAMBDA item : item.parent_id = parentId)

TreeNode_NoParent(item, children) ==
    [id |-> item.id, name |-> item.name, parent_id |-> NULL, children |-> children]

\* { ...item, children: buildTree(items, item.id) }
TreeNode(item, children) ==
    [id |-> item.id, name |-> item.name, parent_id |-> item.parent_id,
     children |-> children]

\* What stands for a call stack that overflowed.
StackOverflow == [id |-> NaN, name |-> EmptyName, parent_id |-> NULL, children |-> <<>>]

\* buildTree(items, parentId).  fuel is the call depth left: a call deeper
\* than there are items has met some item twice and would recurse for ever.
RECURSIVE buildTree(_, _, _)
buildTree(items, parentId, fuel) ==
    IF fuel = 0 THEN << StackOverflow >>
    ELSE LET children == ChildItems(items, parentId)
         IN  [ i \in 1..Len(children) |->
                 TreeNode(children[i], buildTree(items, children[i].id, fuel - 1)) ]

\* A response that carries rows (a list or a forest) in its body.
RespondRows(op, status, rows, dbErr) ==
    last' = [op |-> op, status |-> status, id |-> NULL, deletedRows |-> 0,
             dbErr |-> dbErr, rows |-> rows]

ListFolders(tabType, dbErr) ==
    /\ IF dbErr
       THEN RespondRows("listFolders", 500, <<>>, TRUE)
       ELSE \E rows \in ListFoldersRows(tabType, folders) :
               RespondRows("listFolders", 200, buildTree(rows, NULL, Len(rows) + 1), FALSE)
    /\ pre' = IF Idle THEN NoSnapshot ELSE pre
    /\ UNCHANGED <<folders, files, blobs, folderSeq, fileSeq, uploadSeq, unlinking, req>>

\* :tabType of a listing: the two tags and another string.
ListTabInputs == {"my", "public", "bad"}

\* The folder tables the listing is applied to: any rows with distinct ids;
\* as parent none, the first or the second id (a row of the table, of the other
\* namespace, or the row itself) or an id past them all (no row); two names in
\* namespace 'my', one in 'public'.
TreeRowValues ==
    [name : {1, 2}, parent_id : {NULL, 1, 2, MaxTreeRows + 1}, tab_type : {"my"}]
        \cup [name : {1}, parent_id : {NULL, 1, 2, MaxTreeRows + 1}, tab_type : {"public"}]

\* An id that is in no row of the table.
NoRow == [name |-> EmptyName, parent_id |-> NULL, tab_type |-> ""]

\* The table that holds, for each id, the row c gives it or none.
TreeTable(c) ==
    { [id |-> i, name |-> c[i].name, parent_id |-> c[i].parent_id,
       tab_type |-> c[i].tab_type] : i \in { j \in DOMAIN c : c[j] # NoRow } }

InitTree ==
    /\ \E c \in [1..MaxTreeRows -> TreeRowValues \cup {NoRow}] : folders = TreeTable(c)
    /\ files = {}
    /\ blobs = {}
    /\ folderSeq = MaxTreeRows
    /\ fileSeq = 0
    /\ uploadSeq = 0
    /\ unlinking = {}
    /\ req = NoRequest
    /\ last = NoResponse
    /\ pre = NoSnapshot

\* A read request changes nothing in the store, so a second one would meet the
\* table of the first: each table is asked once.
Unasked == last = NoResponse

NextTree ==
    \E tabType \in ListTabInputs, dbErr \in BOOLEAN : Unasked /\ ListFolders(tabType, dbErr)

SpecTree == InitTree /\ [][NextTree]_vars

----
\* GET /api/files/:tabType and GET /api/search

\* How many rows a file table handed to the listing and the search may hold.
MaxFileRows == 2

\* A string that is searched or sorted is the sequence of its character codes.
Percent == 37
Underscore == 95
UpperA == 65
UpperZ == 90
LowerA == 97

\* BINARY collation: a sorts before b.
RECURSIVE BinaryLess(_, _)
BinaryLess(a, b) ==
    IF b = <<>> THEN FALSE
    ELSE IF a = <<>> THEN TRUE
    ELSE IF Head(a) # Head(b) THEN Head(a) < Head(b)
    ELSE BinaryLess(Tail(a), Tail(b))

\* ?folderId= of a listing: absent is <<>>, a string s sent is <<s>>.
FolderIdQueryInputs == { <<>>, <<"">>, <<"null">>, <<"1">>, <<"abc">> }

\* The decimal strings of the folder ids a listing is asked for.
DecimalString == [ i \in {1} |-> "1" ]

\* parseInt(folderId)
ParseInt(s) ==
    IF \E i \in DOMAIN DecimalString : DecimalString[i] = s
    THEN CHOOSE i \in DOMAIN DecimalString : DecimalString[i] = s
    ELSE NaN

ListFilesWhere_NoRoot(folderId, f) ==
    IF folderId # <<>> /\ folderId[1] # ""
    THEN f.folder_id # NULL /\ f.folder_id = ParseInt(folderId[1])
    ELSE TRUE

\* The WHERE clause built after tab_type = ?: nothing more when folderId is
\* absent or empty, folder_id IS NULL for 'null', folder_id = parseInt(folderId)
\* otherwise (a comparison that is never true of a NULL folder_id or with NaN).
ListFilesWhere(folderId, f) ==
    IF folderId # <<>> /\ folderId[1] # ""
    THEN IF folderId[1] # "null"
         THEN f.folder_id # NULL /\ f.folder_id = ParseInt(folderId[1])
         ELSE f.folder_id = NULL
    ELSE TRUE

\* SELECT id, name, original_name, file_size, mime_type, folder_id, created_at
ListFilesSelect(tabType, folderId, fl) ==
    { [id |-> f.id, name |-> f.name, original_name |-> f.original_name,
       folder_id |-> f.folder_id, created_at |-> f.created_at] :
        f \in { g \in fl : g.tab_type = tabType /\ ListFilesWhere(folderId, g) } }

\* ORDER BY name
FileNameOrder(S) == [a \in S, b \in S |-> BinaryLess(a.name, b.name)]

ListFiles(tabType, folderId, dbErr) ==
    /\ IF dbErr
       THEN RespondRows("listFiles", 500, <<>>, TRUE)
       ELSE LET S == ListFilesSelect(tabType, folderId, files)
            IN  \E rows \in Ordered(S, FileNameOrder(S)) :
                   RespondRows("listFiles", 200, rows, FALSE)
    /\ pre' = IF Idle THEN NoSnapshot ELSE pre
    /\ UNCHANGED <<folders, files, blobs, folderSeq, fileSeq, uploadSeq, unlinking, req>>

\* LIMIT 50
SearchLimit == 50

\* What LIKE compares letters by: ASCII upper case folded to lower case, every
\* other character as it is.
LikeFold(c) == IF c >= UpperA /\ c <= UpperZ THEN c + (LowerA - UpperA) ELSE c

\* str LIKE pattern: % matches any run of characters, _ any one character,
\* any other character itself without regard to ASCII case.
RECURSIVE Like(_, _)
Like(str, pattern) ==
    IF pattern = <<>> THEN str = <<>>
    ELSE IF Head(pattern) = Percent
    THEN Like(str, Tail(pattern)) \/ (str # <<>> /\ Like(Tail(str), pattern))
    ELSE /\ str # <<>>
         /\ Head(pattern) = Underscore \/ LikeFold(Head(pattern)) = LikeFold(Head(str))
         /\ Like(Tail(str), Tail(pattern))

\* searchTerm = `%${query}%`
SearchTerm(query) == <<Percent>> \o query \o <<Percent>>

\* LEFT JOIN folders fo ON f.folder_id = fo.id: fo.name, NULL without a match.
FolderName(folderId, fs) ==
    IF \E g \in fs : g.id = folderId
    THEN (CHOOSE g \in fs : g.id = folderId).name
    ELSE NULL

\* SELECT f.*, fo.name as folder_name ... WHERE f.tab_type = ?
\* AND (f.original_name LIKE ? OR f.name LIKE ?)
SearchSelect(query, tabType, fl, fs) ==
    { [id |-> f.id, name |-> f.name, original_name |-> f.original_name,
       file_path |-> f.file_path, folder_id |-> f.folder_id, tab_type |-> f.tab_type,
       created_at |-> f.created_at, folder_name |-> FolderName(f.folder_id, fs)] :
        f \in { g \in fl :
                 /\ g.tab_type = tabType
                 /\ \/ Like(g.original_name, SearchTerm(query))
                    \/ Like(g.name, SearchTerm(query)) } }

\* ORDER BY f.created_at DESC
NewestFirst(S) == [a \in S, b \in S |-> a.created_at > b.created_at]

SearchFiles(query, tabType, dbErr) ==
    /\ IF query = <<>>
       THEN RespondRows("searchFiles", 400, <<>>, FALSE)
       ELSE IF dbErr
       THEN RespondRows("searchFiles", 500, <<>>, TRUE)
       ELSE LET S == SearchSelect(query, tabType, files, folders)
            IN  \E rows \in Ordered(S, NewestFirst(S)) :
                   RespondRows("searchFiles", 200,
                               SubSeq(rows, 1, IF Len(rows) < SearchLimit
                                               THEN Len(rows) ELSE SearchLimit), FALSE)
    /\ pre' = IF Idle THEN NoSnapshot ELSE pre
    /\ UNCHANGED <<folders, files, blobs, folderSeq, fileSeq, uploadSeq, unlinking, req>>

\* ?query= of a search: none, 'a', 'B', '_'.
QueryInputs == { <<>>, <<LowerA>>, <<UpperA + 1>>, <<Underscore>> }

\* The file tables the read requests are applied to: any rows with distinct ids;
\* in the root or in the first folder, in either namespace, created at one of
\* two seconds, with (display name, stored name) one of 'A'/'c', 'b'/'a', 'b'/'c'.
FileNameValues ==
    { <<(<<UpperA>>), (<<LowerA + 2>>)>>,
      <<(<<LowerA + 1>>), (<<LowerA>>)>>,
      <<(<<LowerA + 1>>), (<<LowerA + 2>>)>> }

FileRowValues ==
    [names : FileNameValues, folder_id : {NULL, 1}, tab_type : {"my", "public"},
     created_at : {1, 2}]

NoFileRow == [names |-> <<>>, folder_id |-> NULL, tab_type |-> "", created_at |-> 0]

FileTable(c) ==
    { [id |-> i, original_name |-> c[i].names[1], name |-> c[i].names[2],
       file_path |-> EmptyPath, folder_id |-> c[i].folder_id,
       tab_type |-> c[i].tab_type, created_at |-> c[i].created_at] :
        i \in { j \in DOMAIN c : c[j] # NoFileRow } }

InitFiles ==
    /\ \E c \in [1..MaxFileRows -> FileRowValues \cup {NoFileRow}] : files = FileTable(c)
    /\ folders = SeedFolderRows
    /\ blobs = {}
    /\ folderSeq = Len(defaultFolders)
    /\ fileSeq = MaxFileRows
    /\ uploadSeq = 0
    /\ unlinking = {}
    /\ req = NoRequest
    /\ last = NoResponse
    /\ pre = NoSnapshot

NextFiles ==
    \/ \E tabType \in ListTabInputs, folderId \in FolderIdQueryInputs, dbErr \in BOOLEAN :
          Unasked /\ ListFiles(tabType, folderId, dbErr)
    \/ \E query \in QueryInputs, tabType \in ListTabInputs, dbErr \in BOOLEAN :
          Unasked /\ SearchFiles(query, tabType, dbErr)

SpecFiles == InitFiles /\ [][NextFiles]_vars

----
\* Several clients.

\* db.run and db.all queue one statement each and return; nothing opens a
\* transaction, so between two statements of a deleteFolder the statement of
\* any other request may run.  Here one deleteFolder is in flight at a time and
\* the requests of the other clients are those of a single statement.
NextConc ==
    \/ \E name \in NameInputs, parentId \in ParentInputs, tabType \in TabInputs, dbErr \in BOOLEAN :
          CreateFolder(name, parentId, tabType, dbErr)
    \/ \E hasFile \in BOOLEAN, folderId \in UploadFolderInputs, tabType \in UploadTabInputs, dbErr \in BOOLEAN :
          Upload(hasFile, folderId, tabType, dbErr)
    \/ \E path \in unlinking, ok \in BOOLEAN : UnlinkDone(path, ok)
    \/ \E tabType \in ListTabInputs, dbErr \in BOOLEAN : ListFolders(tabType, dbErr)
    \/ \E id \in FolderIdInputs, dbErr \in BOOLEAN : Idle /\ DeleteFolderGetSubItems(id, dbErr)
    \/ \E dbErr \in BOOLEAN : DeleteFolderDeleteFiles(dbErr)
    \/ \E dbErr \in BOOLEAN : DeleteFolderDeleteSubfolders(dbErr)
    \/ \E dbErr \in BOOLEAN : DeleteFolderDeleteFolder(dbErr)

SpecConc == Init /\ [][NextConc]_vars

----
\* What the claims are stated with.

\* The error classes of the interface, as the statuses the handlers send.
ValidationError == 400
NotFoundError == 404
BackendError == 500
Ok == 200

\* Following parent_id upward from the folder gid, through rows of fs, reaches F.
RECURSIVE ReachesUp(_, _, _, _)
ReachesUp(gid, F, fs, fuel) ==
    \/ gid = F
    \/ /\ fuel > 0
       /\ \E g \in fs : /\ g.id = gid
                        /\ g.parent_id # NULL
                        /\ ReachesUp(g.parent_id, F, fs, fuel - 1)

\* F and the folders below it.
DescendantClosure(F, fs) == { g \in fs : ReachesUp(g.id, F, fs, Cardinality(fs)) }

\* The files owned by F or by a folder below it.
OwnedFiles(F, fs, fl) == { f \in fl : \E g \in DescendantClosure(F, fs) : f.folder_id = g.id }

\* A deleteFolder has been answered and no request has arrived since.
DeleteFolderAnswered == Idle /\ last.op = "deleteFolder"

\* A deleteFolder is in flight or was the last request answered: pre is its snapshot.
DeleteFolderSeen == req.op = "deleteFolder" \/ DeleteFolderAnswered

DeletedId == IF req.op = "deleteFolder" THEN req.id ELSE last.id

\* C1: after a successful deleteFolder(F) of an existing folder F, the folder
\* rows removed are exactly F and the folders below F.
C1_RemovesSubtreeFolders ==
    (DeleteFolderAnswered /\ last.status = Ok /\ last.id \in FolderIds(pre.folders))
        => pre.folders \ folders = DescendantClosure(last.id, pre.folders)

\* C2: after a successful deleteFolder(F) of an existing folder F, the file rows
\* removed are exactly those whose folder_id is F or a folder below F; no row
\* with a null folder_id is among them and no row is added.
C2_RemovesOwnedFiles ==
    (DeleteFolderAnswered /\ last.status = Ok /\ last.id \in FolderIds(pre.folders))
        => /\ files \subseteq pre.files
           /\ pre.files \ files = OwnedFiles(last.id, pre.folders, pre.files)
           /\ \A f \in pre.files : f.folder_id = NULL => f \in files

C2_Witness ==
    /\ DeleteFolderAnswered /\ last.status = Ok /\ last.id \in FolderIds(pre.folders)
    /\ \E f \in pre.files \ files : f.folder_id # last.id
    /\ \E f \in files : f.folder_id = NULL

\* C3: during and after deleteFolder(F), every folder row that is neither F nor
\* below F, every file row whose folder_id is null or outside F's closure, and
\* the blob of every such file row, is as it was when the request arrived.
C3_FrameOutsideClosure ==
    DeleteFolderSeen =>
        LET closure == DescendantClosure(DeletedId, pre.folders)
        IN  /\ \A g \in pre.folders \ closure : g \in folders
            /\ folders \subseteq pre.folders
            /\ \A f \in pre.files \ OwnedFiles(DeletedId, pre.folders, pre.files) :
                  /\ f \in files
                  /\ f.file_path \in pre.blobs => f.file_path \in blobs

C3_Witness ==
    /\ DeleteFolderAnswered /\ last.status = Ok /\ last.deletedRows = 1
    /\ \E g \in folders : g.id \in NewFolderIds
    /\ \E f \in files : f.file_path # EmptyPath /\ f.file_path \in blobs

\* C4: a deleteFolder that a store statement failed leaves the folder table and
\* the file table as they were when the request arrived.
C4_FailureLeavesTablesUntouched ==
    (DeleteFolderAnswered /\ last.status = BackendError)
        => folders = pre.folders /\ files = pre.files

\* C5: every folder row with a non-null parent_id has a parent row, and that
\* row carries the same namespace tag.
C5_ParentExistsSameNamespace ==
    \A f \in folders :
        f.parent_id # NULL => \E p \in folders : p.id = f.parent_id /\ p.tab_type = f.tab_type

\* C6: every file row with a non-null folder_id names a folder row that exists.
C6_FileFolderExists ==
    \A f \in files : f.folder_id # NULL => f.folder_id \in FolderIds(folders)

\* C7: the parent_id graph is acyclic: no folder is reached by following
\* parent_id upward from its own parent.
C7_ParentGraphAcyclic ==
    \A f \in folders :
        f.parent_id # NULL => ~ReachesUp(f.parent_id, f.id, folders, Cardinality(folders))

\* C8: createFolder with a valid name and namespace tag, and a parentId that is
\* not the id of a folder of that namespace, answers NotFoundError and adds no
\* folder row (the store itself failing aside).
C8_BadParentIsNotFound ==
    [][ \A name \in NameInputs, parentId \in ParentInputs, tabType \in TabInputs :
          ( /\ Idle /\ CreateFolder(name, parentId, tabType, FALSE)
            /\ name # EmptyName /\ tabType \in {"my", "public"}
            /\ parentId \notin {NULL, NaN}
            /\ ~\E p \in folders : p.id = parentId /\ p.tab_type = tabType )
          => (last'.status = NotFoundError /\ folders' = folders) ]_vars

\* C9: createFolder with an empty name, or with a namespace tag that is neither
\* of the two allowed, answers ValidationError and leaves the folder table as
\* it was.
C9_InvalidInputIsValidationError ==
    [][ \A name \in NameInputs, parentId \in ParentInputs, tabType \in TabInputs, dbErr \in BOOLEAN :
          ( /\ Idle /\ CreateFolder(name, parentId, tabType, dbErr)
            /\ (name = EmptyName \/ tabType \notin {"my", "public"}) )
          => (last'.status = ValidationError /\ folders' = folders) ]_vars

\* C10: deleteFolder(id) for an id that names no folder row changes no folder
\* row, no file row and no blob, and unless the store itself fails a statement
\* it answers success with zero affected rows.
C10_AbsentFolderIsNoOp ==
    (DeleteFolderSeen /\ DeletedId \notin FolderIds(pre.folders))
        => /\ folders = pre.folders
           /\ files = pre.files
           /\ blobs \subseteq pre.blobs
           /\ pre.blobs \ blobs \subseteq pre.unlinking
           /\ DeleteFolderAnswered =>
                 /\ last.status \in {Ok, BackendError}
                 /\ last.status = BackendError <=> last.dbErr
                 /\ last.status = Ok => last.deletedRows = 0

C10_Witness ==
    /\ DeleteFolderAnswered /\ last.status = Ok /\ last.deletedRows = 0
    /\ last.id \notin FolderIds(pre.folders)
    /\ \E f \in files : f.folder_id = last.id /\ f.file_path \in blobs

\* C11: deleteFile(id) for an id that names no file row is answered ok, a
\* successful no-op and not an error, with the file table and the blobs unchanged.
C11_AbsentFileIsOkNoOp ==
    [][\A id \in FileIdInputs :
          (Idle /\ id \notin { f.id : f \in files } /\ DeleteFileSelect(id, FALSE))
              => (last'.status = Ok /\ files' = files /\ blobs' = blobs)]_vars

----
\* Listings.

Range(s) == { s[i] : i \in 1..Len(s) }

\* The folder rows tagged ns.
NamespaceFolders(ns, fs) == { f \in fs : f.tab_type = ns }

\* A list of folders that is a forest: ids unique, every non-null parent_id
\* names a folder of the list, and no folder is its own ancestor.
IsForest(rows) ==
    /\ \A a \in rows, b \in rows : a.id = b.id => a = b
    /\ \A r \in rows : r.parent_id # NULL => r.parent_id \in FolderIds(rows)
    /\ \A r \in rows :
          r.parent_id # NULL => ~ReachesUp(r.parent_id, r.id, rows, Cardinality(rows))

\* The ids of a forest, every node of every level, in preorder.
RECURSIVE FlattenIds(_)
FlattenIds(forest) ==
    IF forest = <<>> THEN <<>>
    ELSE <<Head(forest).id>> \o FlattenIds(Head(forest).children) \o FlattenIds(Tail(forest))

\* The nodes of a forest, every level.
RECURSIVE AllNodes(_)
AllNodes(forest) ==
    Range(forest) \cup UNION { AllNodes(n.children) : n \in Range(forest) }

ListFoldersAnswered == Idle /\ last.op = "listFolders" /\ last.status = Ok

\* C12: for a list of folders that is a forest, flattening what buildTree
\* returns gives exactly the ids of the list, each id once.
C12_FlattenGivesInputIds ==
    [][\A tabType \in ListTabInputs :
          LET input == NamespaceFolders(tabType, folders)
          IN  (IsForest(input) /\ ListFolders(tabType, FALSE))
                 => LET flat == FlattenIds(last'.rows)
                    IN  /\ Len(flat) = Cardinality(input)
                        /\ Range(flat) = FolderIds(input)]_vars

\* A forest of two roots, one of them with a child, has been listed whole.
C12_Witness ==
    /\ ListFoldersAnswered
    /\ \E tabType \in ListTabInputs :
          LET input == NamespaceFolders(tabType, folders)
          IN  /\ IsForest(input)
              /\ Cardinality(input) >= 3
              /\ Range(FlattenIds(last.rows)) = FolderIds(input)
              /\ Len(last.rows) >= 2
              /\ \E n \in Range(last.rows) : n.children # <<>>

\* C13: the top-level nodes buildTree returns are exactly the folders of the
\* list with a null parent_id; the children of every node are exactly the
\* folders of the list whose parent_id is the node's id; every node carries its
\* folder's id, name and parent_id; an empty list gives an empty forest.
C13_TreeShape ==
    [][\A tabType \in ListTabInputs :
          LET input == NamespaceFolders(tabType, folders)
              ChildIds(parentId) == { r.id : r \in { x \in input : x.parent_id = parentId } }
              ExactlyOnce(nodes, ids) ==
                  /\ { n.id : n \in Range(nodes) } = ids
                  /\ Len(nodes) = Cardinality(ids)
          IN  ListFolders(tabType, FALSE)
                 => /\ ExactlyOnce(last'.rows, ChildIds(NULL))
                    /\ \A n \in AllNodes(last'.rows) :
                          /\ \E r \in input :
                                r.id = n.id /\ r.name = n.name /\ r.parent_id = n.parent_id
                          /\ ExactlyOnce(n.children, ChildIds(n.id))
                    /\ (input = {} => last'.rows = <<>>)]_vars

\* A listing with a root node that has two children.
C13_Witness ==
    /\ ListFoldersAnswered
    /\ \E n \in AllNodes(last.rows) :
          /\ Len(n.children) >= 2
          /\ n.parent_id = NULL
          /\ \A c \in Range(n.children) : c.parent_id = n.id

\* The folders of a list that hang from nothing: an orphan (its non-null
\* parent_id names no folder of the list) and every folder below one.
Detached(rows) ==
    { r \in rows :
        \E o \in rows :
            /\ o.parent_id # NULL
            /\ o.parent_id \notin FolderIds(rows)
            /\ ReachesUp(r.id, o.id, rows, Cardinality(rows)) }

\* C14: a folder whose non-null parent_id names no folder of the namespace's
\* list is left out of the listFolders result together with every folder
\* below it, and the listing still succeeds.
C14_OrphansLeftOut ==
    [][\A tabType \in ListTabInputs :
          LET input == NamespaceFolders(tabType, folders)
          IN  ListFolders(tabType, FALSE)
                 => /\ last'.status = Ok
                    /\ \A r \in Detached(input) : r.id \notin Range(FlattenIds(last'.rows))]_vars

\* A listing that shows a root and leaves out an orphan and the orphan's child.
C14_Witness ==
    /\ ListFoldersAnswered
    /\ \E tabType \in ListTabInputs :
          LET input == NamespaceFolders(tabType, folders)
          IN  /\ \E o \in Detached(input), c \in Detached(input) :
                    /\ o.parent_id \notin FolderIds(input)
                    /\ c.parent_id = o.id
              /\ Len(last.rows) = 1
              /\ Range(FlattenIds(last.rows)) = FolderIds(input \ Detached(input))

\* The nodes of one level run in ascending order of name.
AscendingByName(nodes) ==
    \A i \in 1..Len(nodes), j \in 1..Len(nodes) : i < j => nodes[i].name <= nodes[j].name

\* C15: in the forest listFolders returns, the top-level nodes and the
\* children of every node are in ascending order of name.
C15_SiblingsAscendingByName ==
    [][\A tabType \in ListTabInputs :
          ListFolders(tabType, FALSE)
             => /\ AscendingByName(last'.rows)
                /\ \A n \in AllNodes(last'.rows) : AscendingByName(n.children)]_vars

\* A node whose two children differ in name, the one created later first.
C15_Witness ==
    /\ ListFoldersAnswered
    /\ \E n \in AllNodes(last.rows) :
          /\ Len(n.children) = 2
          /\ n.children[1].name < n.children[2].name
          /\ n.children[1].id > n.children[2].id

\* The file rows tagged ns.
NamespaceFiles(ns, fl) == { f \in fl : f.tab_type = ns }

\* C16: listFiles(ns, filter) returns exactly the file rows tagged ns that
\* match the filter: all of them when the folder parameter is omitted, those
\* with folder_id = id for a folder id, those with a null folder_id for the
\* root sentinel (so none when every file of ns is in some folder).
C16_ListFilesFilter ==
    [][\A tabType \in ListTabInputs :
          LET ns == NamespaceFiles(tabType, files)
              Exactly(expected) ==
                  /\ last'.status = Ok
                  /\ Len(last'.rows) = Cardinality(expected)
                  /\ \A f \in expected :
                        \E r \in Range(last'.rows) :
                            /\ r.id = f.id
                            /\ r.name = f.name
                            /\ r.folder_id = f.folder_id
              Root == { f \in ns : f.folder_id = NULL }
          IN  /\ ListFiles(tabType, <<>>, FALSE) => Exactly(ns)
              /\ ListFiles(tabType, <<"null">>, FALSE)
                    => /\ Exactly(Root)
                       /\ (\A f \in ns : f.folder_id # NULL) => last'.rows = <<>>
              /\ \A id \in DOMAIN DecimalString :
                    ListFiles(tabType, <<DecimalString[id]>>, FALSE)
                       => Exactly({ f \in ns : f.folder_id = id })]_vars

\* A namespace with one file in the root and one in a folder, listed with the
\* root sentinel: the answer is the one file of the root.
C16_Witness ==
    /\ Idle /\ last.op = "listFiles" /\ last.status = Ok
    /\ \E tabType \in ListTabInputs :
          LET ns == NamespaceFiles(tabType, files)
          IN  /\ Cardinality(ns) = 2
              /\ \E f \in ns, g \in ns : f.folder_id = NULL /\ g.folder_id # NULL
              /\ Len(last.rows) = 1
              /\ last.rows[1].folder_id = NULL
              /\ last.rows[1].id \in { f.id : f \in ns }

\* Case as the claim ignores it.
IgnoringCase(c) == IF c >= UpperA /\ c <= UpperZ THEN c + (LowerA - UpperA) ELSE c

\* term occurs in str as a substring, case ignored.
ContainsIgnoringCase(str, term) ==
    \E i \in 1..(Len(str) - Len(term) + 1) :
        \A k \in 1..Len(term) : IgnoringCase(str[i + k - 1]) = IgnoringCase(term[k])

\* The file rows of ns whose display name or stored name contains term.
Matching(ns, term, fl) ==
    { f \in NamespaceFiles(ns, fl) :
        \/ ContainsIgnoringCase(f.original_name, term)
        \/ ContainsIgnoringCase(f.name, term) }

\* C17: searchFiles(ns, term) with a non-empty term returns only file rows
\* tagged ns whose display name or stored name contains term, case ignored,
\* newest first by creation time and never more than 50; when more than 50
\* rows match, the 50 newest.
C17_SearchReturnsMatchesNewestFirst ==
    [][\A query \in QueryInputs \ { <<>> }, tabType \in ListTabInputs :
          SearchFiles(query, tabType, FALSE)
             => LET rows == last'.rows
                    matching == Matching(tabType, query, files)
                    returned == { f \in files : \E r \in Range(rows) : r.id = f.id }
                IN  /\ \A r \in Range(rows) : r.id \in { f.id : f \in matching }
                    /\ \A i \in 1..Len(rows), j \in 1..Len(rows) :
                          i < j => rows[i].created_at >= rows[j].created_at
                    /\ Len(rows) <= SearchLimit
                    /\ Cardinality(matching) > SearchLimit
                          => /\ Len(rows) = SearchLimit
                             /\ \A f \in returned, g \in matching \ returned :
                                   f.created_at >= g.created_at]_vars

----
\* Uploads.

\* C18: on every failure of an upload after its blob was written and before a
\* row was committed (a rejected folder id, a failed INSERT), the blob has been
\* removed by the time the error response is sent: it is not in the uploads
\* directory and no removal of it is still pending.
C18_FailedUploadBlobRemoved ==
    [][\A folderId \in UploadFolderInputs, tabType \in UploadTabInputs, dbErr \in BOOLEAN :
          (Idle /\ Upload(TRUE, folderId, tabType, dbErr) /\ last'.status # Ok)
             => /\ (uploadSeq + 1) \notin blobs'
                /\ (uploadSeq + 1) \notin unlinking']_vars

----
\* What deleteFolder answers.

\* The body of the success response of deleteFolder:
\* { message, deletedRows: this.changes, folderId: id }.
DeleteFolderBody ==
    [message |-> "deleted", deletedRows |-> last.deletedRows, folderId |-> last.id]

\* The fields of that body that hold a count.
CountFields == DOMAIN DeleteFolderBody \ {"message", "folderId"}

\* C19: the result of deleteFolder reports the number of folder rows and the
\* number of file rows the operation removed: some count of its body is the
\* first and another one the second.
C19_ReportsBothCounts ==
    (DeleteFolderAnswered /\ last.status = Ok)
        => \E folderCount \in CountFields, fileCount \in CountFields :
              /\ folderCount # fileCount
              /\ DeleteFolderBody[folderCount] = Cardinality(pre.folders \ folders)
              /\ DeleteFolderBody[fileCount] = Cardinality(pre.files \ files)

----
\* Requests that run while a deleteFolder is in flight.

\* A deleteFolder has run its first statement and not yet its last.
DeleteFolderInFlight ==
    req.op = "deleteFolder" /\ req.pc \in {"deleteFiles", "deleteSubfolders", "deleteFolder"}

\* What deleteFolder(F) is to remove: the folders of F's subtree, the files
\* they own, the blobs of those files -- as they were when the request arrived.
SubtreeFolders == DescendantClosure(req.id, pre.folders)
SubtreeFiles == OwnedFiles(req.id, pre.folders, pre.files)
SubtreeBlobs == { f.file_path : f \in SubtreeFiles } \cap pre.blobs

\* Part of the subtree has been removed and the rest is still there.
PartlyRemoved ==
    /\ \/ SubtreeFolders \ folders # {}
       \/ SubtreeFiles \ files # {}
       \/ SubtreeBlobs \ blobs # {}
    /\ \/ SubtreeFolders \cap folders # {}
       \/ SubtreeFiles \cap files # {}
       \/ SubtreeBlobs \cap blobs # {}

\* The statement of another client's request runs.
OtherRequest ==
    \/ \E name \in NameInputs, parentId \in ParentInputs, tabType \in TabInputs, dbErr \in BOOLEAN :
          CreateFolder(name, parentId, tabType, dbErr)
    \/ \E hasFile \in BOOLEAN, folderId \in UploadFolderInputs, tabType \in UploadTabInputs, dbErr \in BOOLEAN :
          Upload(hasFile, folderId, tabType, dbErr)
    \/ \E tabType \in ListTabInputs, dbErr \in BOOLEAN : ListFolders(tabType, dbErr)

\* C20: deleteFolder(F) is atomic for the other requests: a listing, an upload
\* or a createFolder whose statement runs between two statements of a
\* deleteFolder in flight never meets a store from which part of F's subtree
\* is gone while the rest is still there.
C20_DeleteFolderAtomic ==
    [][(DeleteFolderInFlight /\ OtherRequest) => ~PartlyRemoved]_vars

----
\* The statements of deleteFolder, one after the other.

\* A deleteFolder has just been answered with a backend error, no statement of
\* it is left to run, and the step that answered changed nothing.
AbortedNow ==
    /\ req' = NoRequest
    /\ last'.op = "deleteFolder" /\ last'.status = BackendError
    /\ folders' = folders /\ files' = files /\ blobs' = blobs

\* C21: when the closure query or any of the three DELETE statements of a
\* deleteFolder fails, no later statement of that deleteFolder runs and the
\* caller gets an error response, never a success.
C21_FailedStatementAborts ==
    [][/\ \A id \in FolderIdInputs : (Idle /\ DeleteFolderGetSubItems(id, TRUE)) => AbortedNow
       /\ DeleteFolderDeleteFiles(TRUE) => AbortedNow
       /\ DeleteFolderDeleteSubfolders(TRUE) => AbortedNow
       /\ DeleteFolderDeleteFolder(TRUE) => AbortedNow]_vars

\* The DELETE of the file rows ran, the DELETE of the folder rows then failed:
\* the answer is an error and the target folder is still there.
C21_Witness ==
    /\ DeleteFolderAnswered /\ last.status = BackendError /\ last.dbErr
    /\ pre.files \ files # {}
    /\ last.id \in FolderIds(folders)

\* The files a deleteFolder of a stored folder collected whose blob could not be
\* removed: it was
\* missing from the uploads directory when the request arrived, or it is still
\* there after the removal was tried.
CollectedUnremoved ==
    { f \in OwnedFiles(DeletedId, pre.folders, pre.files) :
        /\ DeletedId \in FolderIds(pre.folders)
        /\ f.file_path # EmptyPath
        /\ f.file_path \notin pre.blobs \/ f.file_path \in blobs }

RemovedFolderIds == FolderIds(pre.folders) \ FolderIds(folders)

\* C23: at every point of a deleteFolder that runs alone -- after any one of
\* its statements, and after its answer -- no file row has a folder_id that
\* names a folder row this deleteFolder has already removed.
C23_NoFileUnderRemovedFolder ==
    DeleteFolderSeen => \A f \in files : f.folder_id \notin RemovedFolderIds

\* The target row has been removed, and it held a file when the request came.
C23_Witness ==
    /\ DeleteFolderSeen
    /\ DeletedId \in RemovedFolderIds
    /\ \E f \in pre.files : f.folder_id = DeletedId

\* The statement a deleteFolder is at, and the one it may be at after a step.
StepsInOrder ==
    { <<"idle", "deleteFiles">>, <<"idle", "hung">>, <<"idle", "idle">>,
      <<"deleteFiles", "deleteFiles">>, <<"deleteFiles", "deleteSubfolders">>,
      <<"deleteFiles", "hung">>, <<"deleteFiles", "idle">>,
      <<"deleteSubfolders", "deleteSubfolders">>, <<"deleteSubfolders", "deleteFolder">>,
      <<"deleteSubfolders", "idle">>,
      <<"deleteFolder", "deleteFolder">>, <<"deleteFolder", "idle">>,
      <<"hung", "hung">> }

\* C24: deleteFolder removes the blobs of the collected files, then deletes
\* the file rows, then the folder rows below the target, then the target's
\* row, each step after the one before it has completed, and sends the
\* success response only once the target's row has been deleted.
C24_StepsInOrder ==
    [][(req.op = "deleteFolder" \/ req'.op = "deleteFolder")
          => /\ <<req.pc, req'.pc>> \in StepsInOrder
             /\ blobs' # blobs => (Idle \/ unlinking' # unlinking)
             /\ Idle => (files' = files /\ folders' = folders)
             /\ files' # files => (req.pc = "deleteFiles" /\ folders' = folders)
             /\ folders' # folders
                   => \/ /\ req.pc = "deleteSubfolders"
                         /\ \A f \in folders \ folders' : f.id # req.id
                      \/ /\ req.pc = "deleteFolder"
                         /\ \A f \in folders \ folders' : f.id = req.id
             /\ (last' # last /\ last'.status = Ok)
                   => /\ req.pc = "deleteFolder"
                      /\ last'.op = "deleteFolder"
                      /\ req.id \notin FolderIds(folders')]_vars

\* A deleteFolder that removed a blob, a file row and the target's row has
\* been answered with success.
C24_Witness ==
    /\ DeleteFolderAnswered /\ last.status = Ok
    /\ pre.blobs \ blobs # {}
    /\ pre.files \ files # {}
    /\ last.id \in RemovedFolderIds

\* The callback of the statement a deleteFolder is waiting for runs.
DeleteFolderStep ==
    \E dbErr \in BOOLEAN :
        \/ DeleteFolderDeleteFiles(dbErr)
        \/ DeleteFolderDeleteSubfolders(dbErr)
        \/ DeleteFolderDeleteFolder(dbErr)

\* C25: deleteFolder(id) ends with a response for every id in every store that
\* createFolder, upload, deleteFolder and deleteFile can produce, a folder whose
\* parentId was the id it was about to get included: the recursive traversal
\* never runs for ever, so a deleteFolder in flight always has a next step.
C25_DeleteFolderTerminates ==
    req.op = "deleteFolder" => ENABLED DeleteFolderStep

----
\* buildTree on lists that are no forest.

\* Some folder of the list is its own ancestor.
HasCycle(rows) ==
    \E r \in rows :
        r.parent_id # NULL /\ ReachesUp(r.parent_id, r.id, rows, Cardinality(rows))

\* C26: buildTree terminates for every list of folder rows with unique ids,
\* lists with cycles of parent_id or with absent parents included, and no
\* folder of the list occurs twice in the forest it returns.
C26_BuildTreeTerminates ==
    [][\A tabType \in ListTabInputs :
          ListFolders(tabType, FALSE)
             => LET flat == FlattenIds(last'.rows)
                IN  /\ StackOverflow \notin AllNodes(last'.rows)
                    /\ \A i \in 1..Len(flat), j \in 1..Len(flat) : flat[i] = flat[j] => i = j
                    /\ Range(flat) \subseteq FolderIds(NamespaceFolders(tabType, folders))]_vars

\* A namespace with a cycle of two folders and a root beside it has been
\* listed: the answer holds the root.
C26_Witness ==
    /\ ListFoldersAnswered
    /\ \E tabType \in ListTabInputs :
          LET input == NamespaceFolders(tabType, folders)
          IN  /\ HasCycle(input)
              /\ \E a \in input, b \in input :
                    a.id # b.id /\ a.parent_id = b.id /\ b.parent_id = a.id
              /\ Len(last.rows) = 1
              /\ last.rows[1].id \in FolderIds(input)

\* C27: after any sequence of createFolder and deleteFolder requests, every
\* folder row tagged ns that is in the folder table appears in the forest
\* listFolders(ns) returns: no stored folder is invisible to the listing.
C27_EveryFolderListed ==
    [][\A tabType \in ListTabInputs :
          (Idle /\ ListFolders(tabType, FALSE))
             => FolderIds(NamespaceFolders(tabType, folders))
                   \subseteq Range(FlattenIds(last'.rows))]_vars

----
\* An upload while a deleteFolder is in flight.

\* No removal of a blob that the deleteFolder in flight tried has failed.
NoRemovalFailed ==
    \A f \in pre.files :
        f.folder_id \in FolderTree(TargetBase(req.id, pre.folders), pre.folders).rows
            => f.file_path \notin blobs

\* C28: when an upload into F or below it commits its file row between the
\* closure query of deleteFolder(F) and its DELETE of the file rows, every file
\* row that DELETE removes still has its blob removed: provided no removal of
\* a blob fails, no blob is left on disk whose file row deleteFolder deleted.
C28_DeletedRowsHaveNoBlob ==
    [][(DeleteFolderDeleteFiles(FALSE) /\ NoRemovalFailed)
          => \A f \in files \ files' : f.file_path \notin blobs']_vars

----
\* deleteFolder twice.

\* deleteFolder(id) has been run: answered without a failure of the store, or
\* stuck in its closure query for good.
DeleteFolderRan == DeleteFolderSeen /\ (req.pc = "hung" \/ (DeleteFolderAnswered /\ ~last.dbErr))

\* What a deleteFolder(id) arriving at the store as it stands would do: whether
\* its closure query returns, the blobs it removes, the rows its three DELETEs
\* take, and its answer.
Again(id) ==
    [diverges |-> FolderTree(TargetBase(id, folders), folders).diverges,
     blobs |-> ItemPaths(SubItems(id, folders, files)) \cap blobs,
     files |-> DeleteFilesRows(id, folders, files),
     folders |-> DeleteSubfoldersRows(id, folders) \cup DeleteFolderRows(id, folders),
     status |-> DeleteFolderStatus(Cardinality(DeleteFolderRows(id, folders))),
     deletedRows |-> Cardinality(DeleteFolderRows(id, folders))]

\* C29: deleteFolder is idempotent: once deleteFolder(id) has been run, running
\* it again on the store it left returns, removes no blob, no file row and no
\* folder row, and answers success with zero affected rows.
C29_DeleteFolderIdempotent ==
    DeleteFolderRan
        => /\ ~Again(DeletedId).diverges
           /\ Again(DeletedId).blobs = {}
           /\ Again(DeletedId).files = {}
           /\ Again(DeletedId).folders = {}
           /\ Again(DeletedId).status = Ok
           /\ Again(DeletedId).deletedRows = 0

----
\* Server start: the seed block of db.serialize, on the database file a run
\* before it may have left.

\* The rows the seed block inserts when the AUTOINCREMENT counters stand at
\* folderSeq and fileSeq.
InsertedFolders(seq) ==
    { [id |-> seq + i, name |-> defaultFolders[i].name,
       parent_id |-> defaultFolders[i].parent_id,
       tab_type |-> defaultFolders[i].tab_type] : i \in 1..Len(defaultFolders) }

InsertedFiles(seq) ==
    { [id |-> seq + i, file_path |-> sampleFiles[i].file_path,
       folder_id |-> NULL, tab_type |-> sampleFiles[i].tab_type] : i \in 1..Len(sampleFiles) }

\* The seed block without the test of row.count.
ServerStart_Always(dbErr, done) ==
    /\ done \subseteq unlinking
    /\ IF ~dbErr
       THEN /\ folders' = folders \cup InsertedFolders(folderSeq)
            /\ folderSeq' = folderSeq + Len(defaultFolders)
            /\ files' = files \cup InsertedFiles(fileSeq)
            /\ fileSeq' = fileSeq + Len(sampleFiles)
       ELSE UNCHANGED <<folders, folderSeq, files, fileSeq>>
    /\ blobs' = blobs \ done
    /\ unlinking' = {}
    /\ req' = NoRequest
    /\ last' = NoResponse
    /\ pre' = NoSnapshot
    /\ UNCHANGED uploadSeq

\* The process starts.  SELECT COUNT(*) FROM folders; when it fails (dbErr) the
\* callback logs and returns; when it counts 0 the callback inserts
\* defaultFolders and sampleFiles.  Nothing of the run before is left in memory;
\* done: the unlinks of failed uploads, still pending when that run ended, that
\* had removed their blob.
ServerStart(dbErr, done) ==
    /\ done \subseteq unlinking
    /\ IF ~dbErr /\ Cardinality(folders) = 0
       THEN /\ folders' = folders \cup InsertedFolders(folderSeq)
            /\ folderSeq' = folderSeq + Len(defaultFolders)
            /\ files' = files \cup InsertedFiles(fileSeq)
            /\ fileSeq' = fileSeq + Len(sampleFiles)
       ELSE UNCHANGED <<folders, folderSeq, files, fileSeq>>
    /\ blobs' = blobs \ done
    /\ unlinking' = {}
    /\ req' = NoRequest
    /\ last' = NoResponse
    /\ pre' = NoSnapshot
    /\ UNCHANGED uploadSeq

\* The database file before a start: none yet, or the one a run left which had
\* seeded it and then deleted folders down to none or to the first, and file
\* rows down to none or not at all.
InitStart ==
    /\ \/ /\ folders = {} /\ folderSeq = 0
          /\ files = {} /\ fileSeq = 0
       \/ /\ folders \in {{}, { f \in SeedFolderRows : f.id = 1 }}
          /\ folderSeq = Len(defaultFolders)
          /\ files \in {{}, SeedFileRows}
          /\ fileSeq = Len(sampleFiles)
    /\ blobs = {}
    /\ uploadSeq = 0
    /\ unlinking = {}
    /\ req = NoRequest
    /\ last = NoResponse
    /\ pre = NoSnapshot

\* No request arrives before the first start, which seeds the new database file.
Seeded == folderSeq >= Len(defaultFolders)

\* Starts between the requests of one client that creates and deletes folders.
NextStart ==
    \/ \E dbErr \in BOOLEAN, done \in SUBSET unlinking : Idle /\ ServerStart(dbErr, done)
    \/ \E name \in NameInputs, parentId \in ParentInputs, tabType \in TabInputs, dbErr \in BOOLEAN :
          Seeded /\ Idle /\ CreateFolder(name, parentId, tabType, dbErr)
    \/ \E id \in FolderIdInputs, dbErr \in BOOLEAN : Seeded /\ Idle /\ DeleteFolderGetSubItems(id, dbErr)
    \/ \E dbErr \in BOOLEAN : DeleteFolderDeleteFiles(dbErr)
    \/ \E dbErr \in BOOLEAN : DeleteFolderDeleteSubfolders(dbErr)
    \/ \E dbErr \in BOOLEAN : DeleteFolderDeleteFolder(dbErr)

SpecStart == InitStart /\ [][NextStart]_vars

\* A step is a server start.
Started == \E dbErr \in BOOLEAN, done \in SUBSET unlinking : ServerStart(dbErr, done)

\* C30: a server start changes the tables only when the folder table is empty:
\* then (unless the count itself fails) it adds exactly 7 root folders, 5 of one
\* namespace and 2 of the other, and 3 root-level file rows with an empty stored
\* path, whatever file rows there are; with a folder row stored it leaves both
\* tables as they were.
C30_SeedsOnlyEmptyFolderTable ==
    [][Started =>
         LET newFolders == folders' \ folders
             newFiles == files' \ files
         IN  /\ folders \subseteq folders' /\ files \subseteq files'
             /\ folders # {} => (folders' = folders /\ files' = files)
             /\ (folders' # folders \/ files' # files) =>
                   /\ folders = {}
                   /\ Cardinality(newFolders) = 7
                   /\ \A f \in newFolders : f.parent_id = NULL
                   /\ Cardinality({ f \in newFolders : f.tab_type = "my" }) = 5
                   /\ Cardinality({ f \in newFolders : f.tab_type = "public" }) = 2
                   /\ Cardinality(newFiles) = 3
                   /\ \A f \in newFiles : f.folder_id = NULL /\ f.file_path = EmptyPath]_vars

\* A start has just seeded a folder table that had been seeded and emptied
\* before, next to the file rows of the seed before it.
C30_Witness ==
    /\ last = NoResponse /\ req = NoRequest
    /\ Cardinality(folders) = 7
    /\ \A f \in folders : f.id > Len(defaultFolders)
    /\ Cardinality(files) = 6

====
